---- MODULE Spec2Model ----
(***************************************************************************)
(* Threshold-approval governance engine (multisig wallet):                *)
(* src/templates/multisig/src/lib.rs.                                      *)
(*                                                                         *)
(* Durable state is the contract's instance storage (signers, threshold,   *)
(* token, init flag, proposal counter) and its persistent storage (one     *)
(* entry per proposal id).  Every public entry point is one action; the    *)
(* host runs each call to completion and rolls back a call that traps.     *)
(* `last` is the response of the call that has just run, with the state it *)
(* ran in (Idle once the caller has taken it: the host runs one call at a  *)
(* time), `dispatched` counts how often each proposal's action took effect *)
(* and `transfers` lists the token transfers that were committed.          *)
(***************************************************************************)
EXTENDS Integers, Sequences, FiniteSets, TLC

VARIABLES
    initialized,   \* instance key "init" is present
    signers,       \* instance key "signers": Vec<Address>
    threshold,     \* instance key "threshold": u32
    token,         \* instance key "token": an Address, or NoToken when absent
    propCount,     \* instance key "prop_cnt": u32
    proposals,     \* persistent keys ("proposal", id): id -> Proposal
    ledger,        \* env.ledger().sequence()
    dispatched,    \* history: id -> number of times its action took effect
    transfers,     \* history: the committed token.transfer calls, in order
    bars,          \* history: id -> for each entry of the proposal's
                   \* approvals, the threshold stored when it was given
    returned,      \* history: the ids create_proposal has returned, in order
    last           \* the call that has just run and its outcome, or Idle

vars == <<initialized, signers, threshold, token, propCount, proposals,
          ledger, dispatched, transfers, bars, returned, last>>

\* Everything the contract keeps in storage.
durable == <<initialized, signers, threshold, token, propCount, proposals>>

----------------------------------------------------------------------------
\* Bounds of the model.

\* Longest signer list passed to initialize or carried by UpdateSigners.
MaxSigners == 2
\* Number of create_proposal calls explored.
MaxProposals == 1
\* Highest ledger sequence explored.
MaxLedger == 1
\* Highest expiration ledger passed to create_proposal.
MaxExpiration == 1

----------------------------------------------------------------------------
\* Values.

Addresses == {"A", "B"}
TokenAddresses == {"T", "U"}
NoToken == "none"
\* env.current_contract_address()
Wallet == "W"
Amounts == {100}

RECURSIVE SeqsUpTo(_, _)
SeqsUpTo(S, n) ==
    IF n = 0 THEN {<<>>}
    ELSE LET shorter == SeqsUpTo(S, n - 1)
         IN  shorter \cup {Append(s, x) : s \in shorter, x \in S}

SignerLists == SeqsUpTo(Addresses, MaxSigners)
Thresholds == 0 .. (MaxSigners + 1)
Expirations == 0 .. MaxExpiration
ProposalIds == 0 .. MaxProposals

\* enum ProposalStatus
Active == "Active"
Executed == "Executed"

\* enum ProposalAction
Transfer(to, amount) == [kind |-> "Transfer", to |-> to, amount |-> amount]
UpdateSigners(newSigners, newThreshold) ==
    [kind |-> "UpdateSigners", new_signers |-> newSigners,
     new_threshold |-> newThreshold]

ProposalActions ==
    {Transfer(to, amt) : to \in Addresses, amt \in Amounts}
    \cup {UpdateSigners(s, t) : s \in SignerLists, t \in Thresholds}

\* enum MultisigError, by name; Ok is a successful return.  A call that traps
\* (a denied require_auth, a failed token transfer, an arithmetic overflow in
\* a build that checks it) returns no MultisigError.
Ok == "Ok"
AuthAbort == "AuthAbort"
TransferAbort == "TransferAbort"
OverflowAbort == "OverflowAbort"

\* The u32 of the proposal counter and of the ids.  A u32 is held here as the
\* integer with the same 32 bits in two's complement: v itself below 2^31,
\* v - 2^32 from 2^31 on, so that u32::MAX is held as -1 and every id below
\* 2^31 as itself.  The contract compares ids for equality only.
U32Max == -1
I32Max == 2147483647

\* id + 1 in 32 bits: the successor, with u32::MAX followed by 0.
WrappingSucc(v) == IF v = I32Max THEN (-I32Max) - 1 ELSE v + 1

\* The discriminants of enum MultisigError.
ErrorCode ==
    [AlreadyInitialized |-> 1, NotInitialized |-> 2, InvalidThreshold |-> 3,
     NotASigner |-> 4, ProposalNotFound |-> 5, AlreadyApproved |-> 6,
     NotApproved |-> 7, ThresholdNotMet |-> 8, AlreadyExecuted |-> 9,
     ProposalExpired |-> 10, DuplicateSigner |-> 11, EmptySigners |-> 12]

Range(s) == {s[i] : i \in 1 .. Len(s)}
Contains(s, x) == \E i \in 1 .. Len(s) : s[i] = x
NoDuplicates(s) == \A i, j \in 1 .. Len(s) : s[i] = s[j] => i = j

\* The storage, the ledger sequence and the history as a call finds them.
Snapshot ==
    [initialized |-> initialized, signers |-> signers,
     threshold |-> threshold, token |-> token, propCount |-> propCount,
     proposals |-> proposals, ledger |-> ledger, dispatched |-> dispatched,
     transfers |-> transfers, bars |-> bars, returned |-> returned]

\* The response of a call: the entry point, the identity and proposal id it
\* was called with, its other arguments (with auth, whether the host holds
\* an authorization of the call by that identity), the MultisigError or Ok,
\* the value returned, and the state the call ran in.
CallWith(op, caller, id, args, res, ret) ==
    [op |-> op, caller |-> caller, id |-> id, args |-> args, res |-> res,
     ret |-> ret, pre |-> Snapshot]
NoCaller == "-"
NoArgs == <<>>
NoRet == <<>>
Call(op, caller, id, res, ret) == CallWith(op, caller, id, NoArgs, res, ret)
Idle == [op |-> "idle", caller |-> NoCaller, id |-> 0, args |-> NoArgs,
         res |-> Ok, ret |-> NoRet, pre |-> <<>>]

----------------------------------------------------------------------------
\* Internal helpers of the contract.

require_initialized == IF ~initialized THEN "NotInitialized" ELSE Ok

require_signer(addr) == IF Contains(signers, addr) THEN Ok ELSE "NotASigner"

load_proposal(id) == IF id \in DOMAIN proposals THEN Ok ELSE "ProposalNotFound"

\* Variants of require_active, each with one plausible slip.
require_active_ExpiryFirst(p) ==
    IF ledger > p.expiration THEN "ProposalExpired"
    ELSE IF p.status = Executed THEN "AlreadyExecuted"
    ELSE Ok

require_active_NoStatusCheck(p) ==
    IF ledger > p.expiration THEN "ProposalExpired" ELSE Ok

require_active_ExpiryOffByOne(p) ==
    IF p.status = Executed THEN "AlreadyExecuted"
    ELSE IF ledger > p.expiration + 1 THEN "ProposalExpired"
    ELSE Ok

\* A variant that takes the expiration ledger itself for expired.
require_active_ExpiresAtBoundary(p) ==
    IF p.status = Executed THEN "AlreadyExecuted"
    ELSE IF ledger >= p.expiration THEN "ProposalExpired"
    ELSE Ok

require_active(p) ==
    IF p.status = Executed THEN "AlreadyExecuted"
    ELSE IF ledger > p.expiration THEN "ProposalExpired"
    ELSE Ok

\* A variant of the gate that does not ask for the authorization.
Gate_NoAuth(addr, auth) ==
    IF require_initialized # Ok THEN require_initialized
    ELSE require_signer(addr)

\* A variant of the gate that asks for the authorization first.
Gate_AuthFirst(addr, auth) ==
    IF ~auth THEN AuthAbort
    ELSE IF require_initialized # Ok THEN require_initialized
    ELSE require_signer(addr)

\* A variant of the gate without the membership test.
Gate_NoSignerCheck(addr, auth) ==
    IF require_initialized # Ok THEN require_initialized
    ELSE IF ~auth THEN AuthAbort
    ELSE Ok

\* The checks every signer-gated entry point starts with: require_initialized,
\* addr.require_auth() (a denied authorization traps), require_signer.
Gate(addr, auth) ==
    IF require_initialized # Ok THEN require_initialized
    ELSE IF ~auth THEN AuthAbort
    ELSE require_signer(addr)

\* A variant that loads the proposal before it looks at the caller.
ProposalGate_LoadFirst(addr, auth, id) ==
    IF require_initialized # Ok THEN require_initialized
    ELSE IF load_proposal(id) # Ok THEN load_proposal(id)
    ELSE IF Gate(addr, auth) # Ok THEN Gate(addr, auth)
    ELSE require_active(proposals[id])

\* The checks approve, revoke_approval and execute share.
ProposalGate(addr, auth, id) ==
    IF Gate(addr, auth) # Ok THEN Gate(addr, auth)
    ELSE IF load_proposal(id) # Ok THEN load_proposal(id)
    ELSE require_active(proposals[id])

\* A variant with a storage key counted from 0: proposal id lives under
\* id - 1.
StoreProposal_KeyFromZero(id, p) ==
    [x \in DOMAIN proposals \cup {id - 1} |->
        IF x = id - 1 THEN p ELSE proposals[x]]

\* A variant with a storage key that leaves the id out: every proposal
\* lives under the same key.
StoreProposal_SharedKey(id, p) ==
    [x \in DOMAIN proposals \cup {id} |-> p]

\* env.storage().persistent().set(&proposal_key(id), &p)
StoreProposal(id, p) ==
    [x \in DOMAIN proposals \cup {id} |-> IF x = id THEN p ELSE proposals[x]]

\* A variant of the loop that skips the first entry, whoever's it is.
RemoveFirst_DropHead(s, x) == IF s = <<>> THEN <<>> ELSE Tail(s)

\* The position of the first entry of s equal to x, and s without the entry
\* at position i.
IndexOf(s, x) == CHOOSE i \in 1 .. Len(s) :
                    s[i] = x /\ \A j \in 1 .. (i - 1) : s[j] # x
RemoveAt(s, i) == SubSeq(s, 1, i - 1) \o SubSeq(s, i + 1, Len(s))

\* The loop of revoke_approval: the first entry equal to x is skipped.
RECURSIVE RemoveFirst(_, _)
RemoveFirst(s, x) ==
    IF s = <<>> THEN <<>>
    ELSE IF Head(s) = x THEN Tail(s)
    ELSE <<Head(s)>> \o RemoveFirst(Tail(s), x)

----------------------------------------------------------------------------
Init ==
    /\ initialized = FALSE
    /\ signers = <<>>
    /\ threshold = 0
    /\ token = NoToken
    /\ propCount = 0
    /\ proposals = <<>>
    /\ ledger = 0
    /\ dispatched = <<>>
    /\ transfers = <<>>
    /\ bars = <<>>
    /\ returned = <<>>
    /\ last = Idle

history == <<dispatched, transfers, bars, returned>>

\* A variant of initialize that takes a wallet without proposals for an
\* uninitialized one.
InitializeResult_ChecksCounter(s, t) ==
    IF propCount > 0 THEN "AlreadyInitialized"
    ELSE IF Len(s) = 0 THEN "EmptySigners"
    ELSE IF t = 0 \/ t > Len(s) THEN "InvalidThreshold"
    ELSE IF ~NoDuplicates(s) THEN "DuplicateSigner"
    ELSE Ok

\* Variants of the checks of initialize: without the test of the init flag,
\* and with the threshold tested before the emptiness of the list.
InitializeResult_NoInitCheck(s, t) ==
    IF Len(s) = 0 THEN "EmptySigners"
    ELSE IF t = 0 \/ t > Len(s) THEN "InvalidThreshold"
    ELSE IF ~NoDuplicates(s) THEN "DuplicateSigner"
    ELSE Ok

InitializeResult_ThresholdFirst(s, t) ==
    IF initialized THEN "AlreadyInitialized"
    ELSE IF t = 0 \/ t > Len(s) THEN "InvalidThreshold"
    ELSE IF Len(s) = 0 THEN "EmptySigners"
    ELSE IF ~NoDuplicates(s) THEN "DuplicateSigner"
    ELSE Ok

\* initialize(signers, threshold)
InitializeResult(s, t) ==
    IF initialized THEN "AlreadyInitialized"
    ELSE IF Len(s) = 0 THEN "EmptySigners"
    ELSE IF t = 0 \/ t > Len(s) THEN "InvalidThreshold"
    ELSE IF ~NoDuplicates(s) THEN "DuplicateSigner"
    ELSE Ok

\* A variant of initialize that traps unless the call is authorized.
Initialize_RequiresAuth(caller, auth, s, t) ==
    LET res == IF ~auth THEN AuthAbort ELSE InitializeResult(s, t)
    IN  /\ last' = CallWith("initialize", caller, 0,
                            [auth |-> auth, signers |-> s, threshold |-> t],
                            res, NoRet)
        /\ IF res = Ok
           THEN /\ signers' = s
                /\ threshold' = t
                /\ propCount' = 0
                /\ initialized' = TRUE
                /\ UNCHANGED <<token, proposals>>
           ELSE UNCHANGED durable
        /\ UNCHANGED <<ledger, history>>

\* The entry point takes no address of a caller and calls require_auth on
\* nobody: caller, the identity that submits the call, and auth, whether the
\* host holds an authorization of it, are recorded and never read.
Initialize(caller, auth, s, t) ==
    LET res == InitializeResult(s, t)
    IN  /\ last' = CallWith("initialize", caller, 0,
                            [auth |-> auth, signers |-> s, threshold |-> t],
                            res, NoRet)
        /\ IF res = Ok
           THEN /\ signers' = s
                /\ threshold' = t
                /\ propCount' = 0
                /\ initialized' = TRUE
                /\ UNCHANGED <<token, proposals>>
           ELSE UNCHANGED durable
        /\ UNCHANGED <<ledger, history>>

\* A variant of create_proposal that refuses an expiration the ledger has
\* already passed.
CreateResult_ValidatesExpiration(proposer, auth, action, expiration, wraps) ==
    IF Gate(proposer, auth) # Ok THEN Gate(proposer, auth)
    ELSE IF expiration < ledger THEN "ProposalExpired"
    ELSE IF propCount = U32Max /\ ~wraps THEN OverflowAbort
    ELSE Ok

\* The outcome of create_proposal: the gate, then id + 1 on the stored
\* counter.  The addition is a plain u32 +: at u32::MAX it traps in a build
\* with overflow checks and wraps to 0 in one without (wraps tells which);
\* the action and the expiration are not looked at.
CreateResult(proposer, auth, action, expiration, wraps) ==
    IF Gate(proposer, auth) # Ok THEN Gate(proposer, auth)
    ELSE IF propCount = U32Max /\ ~wraps THEN OverflowAbort
    ELSE Ok

\* A variant of create_proposal that stores the proposal and leaves the
\* counter as it was.
CreateProposal_CounterNotStored(proposer, auth, action, expiration, wraps) ==
    LET res == CreateResult(proposer, auth, action, expiration, wraps)
        args == [auth |-> auth, action |-> action, expiration |-> expiration]
        next_id == WrappingSucc(propCount)
        proposal == [id |-> next_id, proposer |-> proposer, action |-> action,
                     approvals |-> <<>>, status |-> Active,
                     expiration |-> expiration]
    IN  IF res = Ok
        THEN /\ proposals' = StoreProposal(next_id, proposal)
             /\ dispatched' = (next_id :> 0) @@ dispatched
             /\ bars' = (next_id :> <<>>) @@ bars
             /\ returned' = Append(returned, next_id)
             /\ last' = CallWith("create_proposal", proposer, next_id, args,
                                 Ok, <<next_id>>)
             /\ UNCHANGED <<initialized, signers, threshold, token, propCount,
                            ledger, transfers>>
        ELSE /\ last' = CallWith("create_proposal", proposer, 0, args, res,
                                 NoRet)
             /\ UNCHANGED <<durable, ledger, history>>

\* create_proposal(proposer, action, expiration_ledger)
CreateProposal(proposer, auth, action, expiration, wraps) ==
    LET res == CreateResult(proposer, auth, action, expiration, wraps)
        args == [auth |-> auth, action |-> action, expiration |-> expiration]
        next_id == WrappingSucc(propCount)
        proposal == [id |-> next_id, proposer |-> proposer, action |-> action,
                     approvals |-> <<>>, status |-> Active,
                     expiration |-> expiration]
    IN  IF res = Ok
        THEN /\ proposals' = StoreProposal(next_id, proposal)
             /\ propCount' = next_id
             /\ dispatched' = (next_id :> 0) @@ dispatched
             /\ bars' = (next_id :> <<>>) @@ bars
             /\ returned' = Append(returned, next_id)
             /\ last' = CallWith("create_proposal", proposer, next_id, args,
                                 Ok, <<next_id>>)
             /\ UNCHANGED <<initialized, signers, threshold, token, ledger,
                            transfers>>
        ELSE /\ last' = CallWith("create_proposal", proposer, 0, args, res,
                                 NoRet)
             /\ UNCHANGED <<durable, ledger, history>>

\* A variant of approve that compares the signer with the latest approval
\* only.
ApproveResult_ChecksLastOnly(signer, auth, id) ==
    IF ProposalGate(signer, auth, id) # Ok THEN ProposalGate(signer, auth, id)
    ELSE IF /\ proposals[id].approvals # <<>>
            /\ proposals[id].approvals[Len(proposals[id].approvals)] = signer
         THEN "AlreadyApproved"
    ELSE Ok

\* A variant of approve without the test for an earlier approval.
ApproveResult_NoRepeatCheck(signer, auth, id) == ProposalGate(signer, auth, id)

\* approve(signer, proposal_id)
ApproveResult(signer, auth, id) ==
    IF ProposalGate(signer, auth, id) # Ok THEN ProposalGate(signer, auth, id)
    ELSE IF Contains(proposals[id].approvals, signer) THEN "AlreadyApproved"
    ELSE Ok

Approve(signer, auth, id) ==
    LET res == ApproveResult(signer, auth, id)
    IN  /\ last' = CallWith("approve", signer, id, [auth |-> auth], res,
                            NoRet)
        /\ IF res = Ok
           THEN /\ proposals' = StoreProposal(id,
                       [proposals[id] EXCEPT
                           !.approvals = Append(@, signer)])
                /\ bars' = [bars EXCEPT ![id] = Append(@, threshold)]
                /\ UNCHANGED <<initialized, signers, threshold, token,
                               propCount>>
           ELSE UNCHANGED <<durable, bars>>
        /\ UNCHANGED <<ledger, dispatched, transfers, returned>>

\* A variant of revoke_approval that lets a signer withdraw an approval
\* after the expiration.
RevokeResult_IgnoresExpiry(signer, auth, id) ==
    IF Gate(signer, auth) # Ok THEN Gate(signer, auth)
    ELSE IF load_proposal(id) # Ok THEN load_proposal(id)
    ELSE IF proposals[id].status = Executed THEN "AlreadyExecuted"
    ELSE IF ~Contains(proposals[id].approvals, signer) THEN "NotApproved"
    ELSE Ok

\* A variant of revoke_approval that reports a missing approval with the
\* error of approve.
RevokeResult_WrongError(signer, auth, id) ==
    IF ProposalGate(signer, auth, id) # Ok THEN ProposalGate(signer, auth, id)
    ELSE IF ~Contains(proposals[id].approvals, signer) THEN "AlreadyApproved"
    ELSE Ok

\* A variant of revoke_approval that lets whoever gave an approval withdraw
\* it, signer or not.
RevokeResult_AuthorMayRevoke(signer, auth, id) ==
    IF require_initialized # Ok THEN require_initialized
    ELSE IF ~auth THEN AuthAbort
    ELSE IF load_proposal(id) = Ok
            /\ require_active(proposals[id]) = Ok
            /\ Contains(proposals[id].approvals, signer) THEN Ok
    ELSE IF ProposalGate(signer, auth, id) # Ok
         THEN ProposalGate(signer, auth, id)
    ELSE "NotApproved"

\* revoke_approval(signer, proposal_id)
RevokeResult(signer, auth, id) ==
    IF ProposalGate(signer, auth, id) # Ok THEN ProposalGate(signer, auth, id)
    ELSE IF ~Contains(proposals[id].approvals, signer) THEN "NotApproved"
    ELSE Ok

RevokeApproval(signer, auth, id) ==
    LET res == RevokeResult(signer, auth, id)
    IN  /\ last' = CallWith("revoke_approval", signer, id, [auth |-> auth],
                            res, NoRet)
        /\ IF res = Ok
           THEN /\ proposals' = StoreProposal(id,
                       [proposals[id] EXCEPT
                           !.approvals = RemoveFirst(@, signer)])
                /\ bars' = [bars EXCEPT
                              ![id] = RemoveAt(@, IndexOf(
                                          proposals[id].approvals, signer))]
                /\ UNCHANGED <<initialized, signers, threshold, token,
                               propCount>>
           ELSE UNCHANGED <<durable, bars>>
        /\ UNCHANGED <<ledger, dispatched, transfers, returned>>

\* A variant of the quorum check that counts the approvals of those who are
\* signers now.
QuorumMet_CurrentSignersOnly(p) ==
    ~(Len(SelectSeq(p.approvals, LAMBDA a : Contains(signers, a)))
         < threshold)

\* A variant of the quorum check that holds a proposal to the threshold that
\* was stored when its first approval was given.
QuorumMet_BarAtApproval(p) ==
    ~(Len(p.approvals) < IF bars[p.id] = <<>> THEN threshold
                         ELSE bars[p.id][1])

\* A variant of the quorum check that asks for one approval too many.
QuorumMet_Strict(p) == Len(p.approvals) > threshold

\* The quorum check of execute.
QuorumMet(p) == ~(Len(p.approvals) < threshold)

\* Variants of the validation: without the upper bound on the threshold, and
\* with the threshold tested before the emptiness of the list.
ValidateUpdate_NoUpperBound(new_signers, new_threshold) ==
    IF Len(new_signers) = 0 THEN "EmptySigners"
    ELSE IF new_threshold = 0 THEN "InvalidThreshold"
    ELSE Ok

ValidateUpdate_ThresholdFirst(new_signers, new_threshold) ==
    IF new_threshold = 0 \/ new_threshold > Len(new_signers)
    THEN "InvalidThreshold"
    ELSE IF Len(new_signers) = 0 THEN "EmptySigners"
    ELSE Ok

\* The validation execute applies to an UpdateSigners action.
ValidateUpdate(new_signers, new_threshold) ==
    IF Len(new_signers) = 0 THEN "EmptySigners"
    ELSE IF new_threshold = 0 \/ new_threshold > Len(new_signers)
         THEN "InvalidThreshold"
    ELSE Ok

\* The match of execute on the proposal's action.  The token client is the
\* stored token or, with none stored, the wallet itself, which has no
\* transfer entry point; transferOk is the token contract's answer.
DispatchResult(action, transferOk) ==
    IF action.kind = "Transfer"
    THEN IF token # NoToken /\ transferOk THEN Ok ELSE TransferAbort
    ELSE ValidateUpdate(action.new_signers, action.new_threshold)

\* execute(signer, proposal_id)
ExecuteResult(signer, auth, id, transferOk) ==
    IF ProposalGate(signer, auth, id) # Ok THEN ProposalGate(signer, auth, id)
    ELSE IF ~QuorumMet(proposals[id]) THEN "ThresholdNotMet"
    ELSE DispatchResult(proposals[id].action, transferOk)

\* A variant of Commit that empties the approvals of the proposal it marks
\* Executed.
Commit_ClearsApprovals(id) ==
    LET p == proposals[id]
    IN  /\ IF p.action.kind = "Transfer"
           THEN /\ transfers' = Append(transfers,
                       [token |-> token, from |-> Wallet,
                        to |-> p.action.to, amount |-> p.action.amount])
                /\ UNCHANGED <<signers, threshold>>
           ELSE /\ signers' = p.action.new_signers
                /\ threshold' = p.action.new_threshold
                /\ UNCHANGED transfers
        /\ proposals' = StoreProposal(id, [p EXCEPT !.status = Executed,
                                                    !.approvals = <<>>])
        /\ dispatched' = [dispatched EXCEPT ![id] = @ + 1]
        /\ bars' = [bars EXCEPT ![id] = <<>>]
        /\ UNCHANGED <<initialized, token, propCount, returned>>

\* A variant of Commit that stores the new signers and leaves the threshold.
Commit_SignersOnly(id) ==
    LET p == proposals[id]
    IN  /\ IF p.action.kind = "Transfer"
           THEN /\ transfers' = Append(transfers,
                       [token |-> token, from |-> Wallet,
                        to |-> p.action.to, amount |-> p.action.amount])
                /\ UNCHANGED <<signers, threshold>>
           ELSE /\ signers' = p.action.new_signers
                /\ UNCHANGED <<threshold, transfers>>
        /\ proposals' = StoreProposal(id, [p EXCEPT !.status = Executed])
        /\ dispatched' = [dispatched EXCEPT ![id] = @ + 1]
        /\ UNCHANGED <<initialized, token, propCount, bars, returned>>

\* What execute writes once the dispatch has succeeded.
Commit(id) ==
    LET p == proposals[id]
    IN  /\ IF p.action.kind = "Transfer"
           THEN /\ transfers' = Append(transfers,
                       [token |-> token, from |-> Wallet,
                        to |-> p.action.to, amount |-> p.action.amount])
                /\ UNCHANGED <<signers, threshold>>
           ELSE /\ signers' = p.action.new_signers
                /\ threshold' = p.action.new_threshold
                /\ UNCHANGED transfers
        /\ proposals' = StoreProposal(id, [p EXCEPT !.status = Executed])
        /\ dispatched' = [dispatched EXCEPT ![id] = @ + 1]
        /\ UNCHANGED <<initialized, token, propCount, bars, returned>>

\* A variant of execute that stores the new signers before it validates the
\* new threshold.
Execute_WriteBeforeValidate(signer, auth, id, transferOk) ==
    LET res == ExecuteResult(signer, auth, id, transferOk)
    IN  /\ last' = CallWith("execute", signer, id, [auth |-> auth], res,
                            NoRet)
        /\ IF res = Ok
           THEN Commit(id)
           ELSE IF res = "InvalidThreshold"
           THEN /\ signers' = proposals[id].action.new_signers
                /\ UNCHANGED <<initialized, threshold, token, propCount,
                               proposals, history>>
           ELSE UNCHANGED <<durable, history>>
        /\ UNCHANGED ledger

\* A variant of execute that marks the proposal Executed before the transfer
\* and keeps the mark when the transfer fails.
Execute_StatusBeforeTransfer(signer, auth, id, transferOk) ==
    LET res == ExecuteResult(signer, auth, id, transferOk)
    IN  /\ last' = CallWith("execute", signer, id, [auth |-> auth], res,
                            NoRet)
        /\ IF res = Ok
           THEN Commit(id)
           ELSE IF res = TransferAbort
           THEN /\ proposals' = StoreProposal(id,
                       [proposals[id] EXCEPT !.status = Executed])
                /\ UNCHANGED <<initialized, signers, threshold, token,
                               propCount, history>>
           ELSE UNCHANGED <<durable, history>>
        /\ UNCHANGED ledger

Execute(signer, auth, id, transferOk) ==
    LET res == ExecuteResult(signer, auth, id, transferOk)
    IN  /\ last' = CallWith("execute", signer, id, [auth |-> auth], res,
                            NoRet)
        /\ IF res = Ok
           THEN Commit(id)
           ELSE UNCHANGED <<durable, history>>
        /\ UNCHANGED ledger

\* A variant of set_token that keeps a token that is already stored.
SetToken_KeepsFirst(signer, auth, tok) ==
    LET res == Gate(signer, auth)
    IN  /\ last' = CallWith("set_token", signer, 0,
                            [auth |-> auth, token |-> tok], res, NoRet)
        /\ IF res = Ok /\ token = NoToken
           THEN /\ token' = tok
                /\ UNCHANGED <<initialized, signers, threshold, propCount,
                               proposals>>
           ELSE UNCHANGED durable
        /\ UNCHANGED <<ledger, history>>

\* set_token(signer, token)
SetToken(signer, auth, tok) ==
    LET res == Gate(signer, auth)
    IN  /\ last' = CallWith("set_token", signer, 0,
                            [auth |-> auth, token |-> tok], res, NoRet)
        /\ IF res = Ok
           THEN /\ token' = tok
                /\ UNCHANGED <<initialized, signers, threshold, propCount,
                               proposals>>
           ELSE UNCHANGED durable
        /\ UNCHANGED <<ledger, history>>

\* get_proposal(proposal_id)
GetProposal(id) ==
    /\ last' = IF load_proposal(id) = Ok
               THEN Call("get_proposal", NoCaller, id, Ok, <<proposals[id]>>)
               ELSE Call("get_proposal", NoCaller, id, load_proposal(id), NoRet)
    /\ UNCHANGED <<durable, ledger, history>>

\* get_signers()
GetSigners ==
    /\ last' = IF require_initialized = Ok
               THEN Call("get_signers", NoCaller, 0, Ok, <<signers>>)
               ELSE Call("get_signers", NoCaller, 0, require_initialized, NoRet)
    /\ UNCHANGED <<durable, ledger, history>>

\* A variant of get_threshold that reads the threshold without
\* require_initialized.
GetThreshold_NoInitCheck ==
    /\ last' = Call("get_threshold", NoCaller, 0, Ok, <<threshold>>)
    /\ UNCHANGED <<durable, ledger, history>>

\* get_threshold()
GetThreshold ==
    /\ last' = IF require_initialized = Ok
               THEN Call("get_threshold", NoCaller, 0, Ok, <<threshold>>)
               ELSE Call("get_threshold", NoCaller, 0, require_initialized,
                         NoRet)
    /\ UNCHANGED <<durable, ledger, history>>

\* get_proposal_count()
GetProposalCount ==
    /\ last' = IF require_initialized = Ok
               THEN Call("get_proposal_count", NoCaller, 0, Ok, <<propCount>>)
               ELSE Call("get_proposal_count", NoCaller, 0,
                         require_initialized, NoRet)
    /\ UNCHANGED <<durable, ledger, history>>

\* The host's ledger sequence advances between calls.
AdvanceLedger ==
    /\ ledger' = ledger + 1
    /\ UNCHANGED <<durable, history, last>>

\* The caller takes the response; the host then runs the next call.
Return ==
    /\ last' = Idle
    /\ UNCHANGED <<durable, ledger, history>>

\* The host runs one call at a time: a call starts once the response of the
\* previous one has been taken.
Ready == last.op = "idle"

\* One call of the public surface with its inputs, the ledger advancing, or
\* the response being taken.
Next ==
    \/ Ready /\ \E c \in Addresses, auth \in BOOLEAN, s \in SignerLists,
                   t \in Thresholds : Initialize(c, auth, s, t)
    \/ Ready /\ propCount < MaxProposals
             /\ \E p \in Addresses, auth \in BOOLEAN, a \in ProposalActions,
                   e \in Expirations, wraps \in BOOLEAN :
                   CreateProposal(p, auth, a, e, wraps)
    \/ Ready /\ \E s \in Addresses, auth \in BOOLEAN, id \in ProposalIds :
                   Approve(s, auth, id)
    \/ Ready /\ \E s \in Addresses, auth \in BOOLEAN, id \in ProposalIds :
                   RevokeApproval(s, auth, id)
    \/ Ready /\ \E s \in Addresses, auth \in BOOLEAN, id \in ProposalIds,
                   transferOk \in BOOLEAN : Execute(s, auth, id, transferOk)
    \/ Ready /\ \E s \in Addresses, auth \in BOOLEAN, tok \in TokenAddresses :
                   SetToken(s, auth, tok)
    \/ Ready /\ \E id \in ProposalIds \cup {MaxProposals + 1} : GetProposal(id)
    \/ Ready /\ GetSigners
    \/ Ready /\ GetThreshold
    \/ Ready /\ GetProposalCount
    \/ Ready /\ ledger < MaxLedger /\ AdvanceLedger
    \/ ~Ready /\ Return

Spec == Init /\ [][Next]_vars

----------------------------------------------------------------------------
\* The same wallet with several proposals stored side by side.  The calls
\* are those of Next with authorization granted, and the inputs are a few
\* chosen configurations and actions: a transfer, an update that drops a
\* signer and lowers the threshold, an update that raises the threshold, and
\* an update whose threshold is out of range.

\* Number of create_proposal calls explored with proposals side by side.
MaxProposalsPair == 2

PairIds == 1 .. MaxProposalsPair
PairSignerLists == {<<"A">>, <<"A", "B">>}
PairThresholds == 1 .. 2
PairTokens == {"T"}
PairActions ==
    {Transfer("B", 100), UpdateSigners(<<"A">>, 1),
     UpdateSigners(<<"A", "B">>, 2), UpdateSigners(<<"A", "B">>, 3)}

NextPair ==
    \/ Ready /\ \E s \in PairSignerLists, t \in PairThresholds :
                   Initialize("A", TRUE, s, t)
    \/ Ready /\ propCount < MaxProposalsPair
             /\ \E p \in Addresses, a \in PairActions, e \in Expirations,
                   wraps \in BOOLEAN :
                   CreateProposal(p, TRUE, a, e, wraps)
    \/ Ready /\ \E s \in Addresses, id \in PairIds : Approve(s, TRUE, id)
    \/ Ready /\ \E s \in Addresses, id \in PairIds :
                   RevokeApproval(s, TRUE, id)
    \/ Ready /\ \E s \in Addresses, id \in PairIds, transferOk \in BOOLEAN :
                   Execute(s, TRUE, id, transferOk)
    \/ Ready /\ \E s \in Addresses, tok \in PairTokens :
                   SetToken(s, TRUE, tok)
    \/ Ready /\ ledger < MaxLedger /\ AdvanceLedger
    \/ ~Ready /\ Return

SpecPair == Init /\ [][NextPair]_vars

----------------------------------------------------------------------------
\* The wallet with its proposal counter one below u32::MAX.  create_proposal
\* has succeeded u32::MAX - 1 times; of the proposals stored, the model
\* follows the one under id 1 and those the calls below create, and the
\* calls name no other id.  MaxWrapCreates bounds the calls of
\* create_proposal that succeed from here.
MaxWrapCreates == 3
WrapIds == {1, U32Max, 0}
WrapActions == {Transfer("B", 100), UpdateSigners(<<"A">>, 1)}

InitWrap ==
    /\ initialized = TRUE
    /\ signers = <<"A", "B">>
    /\ threshold = 1
    /\ token = "T"
    /\ propCount = U32Max - 1
    /\ proposals = (1 :> [id |-> 1, proposer |-> "A",
                          action |-> Transfer("B", 100),
                          approvals |-> <<"A">>, status |-> Active,
                          expiration |-> MaxExpiration])
    /\ ledger = 0
    /\ dispatched = (1 :> 0)
    /\ transfers = <<>>
    /\ bars = (1 :> <<1>>)
    /\ returned = <<1>>
    /\ last = Idle

NextWrap ==
    \/ Ready /\ Len(returned) <= MaxWrapCreates
             /\ \E p \in Addresses, a \in WrapActions, wraps \in BOOLEAN :
                   CreateProposal(p, TRUE, a, MaxExpiration, wraps)
    \/ Ready /\ \E s \in Addresses, id \in WrapIds : Approve(s, TRUE, id)
    \/ Ready /\ \E s \in Addresses, id \in WrapIds :
                   RevokeApproval(s, TRUE, id)
    \/ Ready /\ \E s \in Addresses, id \in WrapIds :
                   Execute(s, TRUE, id, TRUE)
    \/ Ready /\ \E id \in WrapIds : GetProposal(id)
    \/ Ready /\ GetProposalCount
    \/ ~Ready /\ Return

SpecWrap == InitWrap /\ [][NextWrap]_vars

----------------------------------------------------------------------------
\* Vocabulary of the properties.  A property speaks of the call that has just
\* run: pre is the state it ran in, the variables are the state it left.

pre == last.pre

\* The call was entry point op, made by identity s on proposal id, and it
\* passed the authorization gate.
Called(op, s, id) ==
    /\ last.op = op
    /\ last.caller = s
    /\ last.id = id
    /\ last.res # AuthAbort

\* When called, s was a signer of an initialized wallet and id was stored.
SignerOn(s, id) ==
    /\ pre.initialized
    /\ Contains(pre.signers, s)
    /\ id \in DOMAIN pre.proposals

\* The storage and the history are as the call found them.
Untouched ==
    /\ initialized = pre.initialized
    /\ signers = pre.signers
    /\ threshold = pre.threshold
    /\ token = pre.token
    /\ propCount = pre.propCount
    /\ proposals = pre.proposals

HistoryUntouched ==
    /\ dispatched = pre.dispatched
    /\ transfers = pre.transfers
    /\ bars = pre.bars
    /\ returned = pre.returned

IsUpdate(p) == p.action.kind = "UpdateSigners"
IsTransfer(p) == p.action.kind = "Transfer"

\* The parameters of an UpdateSigners action are legal.
LegalUpdate(p) ==
    /\ Len(p.action.new_signers) >= 1
    /\ p.action.new_threshold >= 1
    /\ p.action.new_threshold <= Len(p.action.new_signers)

----------------------------------------------------------------------------
\* C1 as stated: for a current signer and an Active, unexpired proposal,
\* execute succeeds if and only if the number of approvals is at least the
\* stored threshold (calls the token contract made fail are left aside).
C1_ExecuteIffQuorum ==
    \A s \in Addresses, id \in ProposalIds :
        (/\ Called("execute", s, id)
         /\ SignerOn(s, id)
         /\ pre.proposals[id].status = Active
         /\ pre.ledger <= pre.proposals[id].expiration
         /\ last.res # TransferAbort)
        => (last.res = Ok
               <=> Len(pre.proposals[id].approvals) >= pre.threshold)

\* C1 amended: for a current signer and an Active, unexpired proposal, execute
\* fails with ThresholdNotMet if and only if the number of approvals is below
\* the threshold stored at the moment of the call; with at least threshold
\* approvals (exactly threshold is enough) it succeeds if and only if the
\* dispatch of the action succeeds: legal parameters for UpdateSigners, a
\* successful token transfer for Transfer.
C1_QuorumDecidesExecute ==
    \A s \in Addresses, id \in ProposalIds :
        (/\ Called("execute", s, id)
         /\ SignerOn(s, id)
         /\ pre.proposals[id].status = Active
         /\ pre.ledger <= pre.proposals[id].expiration)
        => LET p == pre.proposals[id]
               quorum == Len(p.approvals) >= pre.threshold
           IN  /\ last.res = "ThresholdNotMet" <=> ~quorum
               /\ (quorum /\ IsUpdate(p)) => (last.res = Ok <=> LegalUpdate(p))
               /\ (quorum /\ IsTransfer(p)) => last.res \in {Ok, TransferAbort}
               /\ last.res = Ok => quorum

\* A Transfer proposal was executed with exactly threshold approvals, two of
\* them.
C1_Witness ==
    /\ last.op = "execute"
    /\ last.res = Ok
    /\ IsTransfer(pre.proposals[last.id])
    /\ pre.threshold = 2
    /\ Len(pre.proposals[last.id].approvals) = 2

\* C2: once a proposal is Executed, approve, revoke_approval and execute by a
\* current signer fail with AlreadyExecuted, expired or not, and change
\* neither the proposal nor the configuration.
C2_ExecutedIsFinal ==
    \A s \in Addresses, id \in ProposalIds :
        (/\ \/ Called("approve", s, id)
            \/ Called("revoke_approval", s, id)
            \/ Called("execute", s, id)
         /\ SignerOn(s, id)
         /\ pre.proposals[id].status = Executed)
        => /\ last.res = "AlreadyExecuted"
           /\ Untouched
           /\ HistoryUntouched

\* A signer's approve was refused with AlreadyExecuted on a proposal that is
\* also past its expiration.
C2_Witness ==
    /\ last.op = "approve"
    /\ last.res = "AlreadyExecuted"
    /\ Contains(pre.signers, last.caller)
    /\ pre.ledger > pre.proposals[last.id].expiration

\* C3: a proposal is Executed if and only if its action has been dispatched
\* exactly once; no action is dispatched twice, and no call turns an Executed
\* proposal Active again or dispatches it again.
C3_DispatchedExactlyOnce ==
    /\ \A id \in DOMAIN proposals :
          /\ dispatched[id] \in {0, 1}
          /\ proposals[id].status = Executed <=> dispatched[id] = 1
    /\ last.op # "idle" =>
          \A id \in DOMAIN pre.proposals :
             pre.proposals[id].status = Executed
                => /\ id \in DOMAIN proposals
                   /\ proposals[id].status = Executed
                   /\ dispatched[id] = pre.dispatched[id]

\* A second execute on a proposal that was dispatched once was refused, and
\* the proposal is still dispatched once.
C3_Witness ==
    /\ last.op = "execute"
    /\ last.res = "AlreadyExecuted"
    /\ pre.dispatched[last.id] = 1
    /\ dispatched[last.id] = 1
    /\ proposals[last.id].status = Executed

\* C4: a call that returns an error (or traps) leaves all durable state as it
\* was: signers, threshold, token, init flag, proposal counter and every
\* stored proposal.
C4_FailureChangesNothing ==
    (last.op # "idle" /\ last.res # Ok) => Untouched

\* An execute that met the quorum of a two-signer wallet failed on the
\* threshold of its UpdateSigners action.
C4_Witness ==
    /\ last.op = "execute"
    /\ last.res = "InvalidThreshold"
    /\ Len(pre.proposals[last.id].approvals) >= pre.threshold
    /\ Len(pre.signers) = 2

\* C5: in every initialized state the signer list is non-empty and
\* 1 <= threshold <= number of stored signers.
C5_ThresholdInRange ==
    initialized => /\ Len(signers) >= 1
                   /\ 1 <= threshold
                   /\ threshold <= Len(signers)

\* An executed UpdateSigners has replaced a one-signer list by a two-signer
\* list whose threshold is its length.
C5_Witness ==
    /\ last.op = "execute"
    /\ last.res = Ok
    /\ IsUpdate(pre.proposals[last.id])
    /\ Len(pre.signers) = 1
    /\ Len(signers) = 2
    /\ threshold = 2

\* C6: the stored signer list never holds the same signer twice.
C6_NoDuplicateSigner == NoDuplicates(signers)

\* C7: in every initialized state the number of distinct current signers is
\* at least the threshold, so a quorum can always be collected.
C7_ThresholdSatisfiable ==
    initialized => Cardinality(Range(signers)) >= threshold

\* C8: a successful execute of UpdateSigners(newSigners, newThreshold) leaves
\* exactly newSigners and newThreshold stored and the proposal Executed;
\* after initialization no other call changes the signers or the threshold,
\* and no other call changes the status of an UpdateSigners proposal.
C8_Updated(id) ==
    /\ last.op = "execute"
    /\ last.id = id
    /\ last.res = Ok
    /\ IsUpdate(pre.proposals[id])
    /\ signers = pre.proposals[id].action.new_signers
    /\ threshold = pre.proposals[id].action.new_threshold
    /\ proposals[id].status = Executed

C8_UpdateIsOneStep ==
    last.op # "idle" =>
       /\ \A s \in Addresses, id \in DOMAIN pre.proposals :
             (Called("execute", s, id) /\ last.res = Ok
                  /\ IsUpdate(pre.proposals[id]))
                => C8_Updated(id)
       /\ (pre.initialized
              /\ <<signers, threshold>> # <<pre.signers, pre.threshold>>)
             => \E id \in DOMAIN pre.proposals : C8_Updated(id)
       /\ \A id \in DOMAIN pre.proposals :
             (IsUpdate(pre.proposals[id])
                  /\ proposals[id].status # pre.proposals[id].status)
                => C8_Updated(id)

\* An executed UpdateSigners has replaced both the signers and the
\* threshold: the caller is no longer a signer and the threshold went from 2
\* to 1.
C8_Witness ==
    /\ last.op = "execute"
    /\ last.res = Ok
    /\ IsUpdate(pre.proposals[last.id])
    /\ proposals[last.id].status = Executed
    /\ signers = pre.proposals[last.id].action.new_signers
    /\ ~Contains(signers, last.caller)
    /\ pre.threshold = 2
    /\ threshold = 1

\* C9: execute of a quorum-met UpdateSigners proposal fails with EmptySigners
\* when the new list is empty and with InvalidThreshold when the new
\* threshold is 0 or exceeds the new list's length; the proposal stays Active
\* and nothing stored changes, so that approve, revoke_approval and execute
\* by a signer are still let through to their own checks.
C9_InvalidUpdateLeavesActive ==
    \A s \in Addresses, id \in ProposalIds :
        (/\ Called("execute", s, id)
         /\ SignerOn(s, id)
         /\ pre.proposals[id].status = Active
         /\ pre.ledger <= pre.proposals[id].expiration
         /\ Len(pre.proposals[id].approvals) >= pre.threshold
         /\ IsUpdate(pre.proposals[id])
         /\ ~LegalUpdate(pre.proposals[id]))
        => /\ last.res = IF Len(pre.proposals[id].action.new_signers) = 0
                         THEN "EmptySigners" ELSE "InvalidThreshold"
           /\ Untouched
           /\ HistoryUntouched
           /\ proposals[id].status = Active
           /\ \A r \in Addresses :
                 Contains(signers, r) =>
                    /\ ProposalGate(r, TRUE, id) = Ok
                    /\ ApproveResult(r, TRUE, id) \in {Ok, "AlreadyApproved"}
                    /\ RevokeResult(r, TRUE, id) \in {Ok, "NotApproved"}
                    /\ ExecuteResult(r, TRUE, id, TRUE) = last.res

\* An execute that met the quorum failed with EmptySigners and the proposal
\* is still Active.
C9_Witness ==
    /\ last.op = "execute"
    /\ last.res = "EmptySigners"
    /\ proposals[last.id].status = Active
    /\ Len(proposals[last.id].approvals) >= threshold

\* C10: when the ledger sequence is greater than an Active proposal's
\* expiration, approve and execute by a current signer fail with
\* ProposalExpired, whatever number of approvals the proposal holds.
C10_ExpiredIsRefused ==
    \A s \in Addresses, id \in ProposalIds :
        (/\ Called("approve", s, id) \/ Called("execute", s, id)
         /\ SignerOn(s, id)
         /\ pre.proposals[id].status = Active
         /\ pre.ledger > pre.proposals[id].expiration)
        => last.res = "ProposalExpired"

\* An execute was refused with ProposalExpired on a proposal that holds two
\* approvals, as many as the threshold asks for.
C10_Witness ==
    /\ last.op = "execute"
    /\ last.res = "ProposalExpired"
    /\ pre.threshold = 2
    /\ Len(pre.proposals[last.id].approvals) = 2

\* C11: on an uninitialized wallet, initialize with a duplicate-free signer
\* list and 1 <= threshold <= |signers| succeeds, stores exactly those
\* signers and that threshold and sets the proposal counter to 0; it succeeds
\* only on an uninitialized wallet and the wallet never becomes uninitialized
\* again, so it succeeds at most once; every initialize call on an
\* initialized wallet fails with AlreadyInitialized whatever its arguments
\* and changes nothing.
C11_InitializeOnce ==
    /\ last.op = "initialize" =>
          LET s == last.args.signers
              t == last.args.threshold
          IN  /\ (~pre.initialized /\ NoDuplicates(s) /\ 1 <= t /\ t <= Len(s))
                    => /\ last.res = Ok
                       /\ initialized
                       /\ signers = s
                       /\ threshold = t
                       /\ propCount = 0
              /\ last.res = Ok => ~pre.initialized
              /\ pre.initialized => /\ last.res = "AlreadyInitialized"
                                    /\ Untouched
    /\ (last.op # "idle" /\ pre.initialized) => initialized

\* An initialize with a valid two-signer configuration was refused with
\* AlreadyInitialized on a wallet that holds a different configuration.
C11_Witness ==
    /\ last.op = "initialize"
    /\ last.res = "AlreadyInitialized"
    /\ Len(last.args.signers) = 2
    /\ NoDuplicates(last.args.signers)
    /\ last.args.threshold = 2
    /\ signers # last.args.signers
    /\ threshold = 1

\* C12: on an uninitialized wallet, initialize with a signer list that holds
\* a repeated signer fails with DuplicateSigner, whatever the threshold.
C12_DuplicateAlwaysReported ==
    (/\ last.op = "initialize"
     /\ ~pre.initialized
     /\ ~NoDuplicates(last.args.signers))
    => last.res = "DuplicateSigner"

\* C13: on an uninitialized wallet, initialize with an empty signer list
\* fails with EmptySigners whatever the threshold, and initialize with a
\* non-empty list and threshold 0 or threshold > |signers| fails with
\* InvalidThreshold; neither initializes the wallet.
C13_EmptyBeforeThreshold ==
    (last.op = "initialize" /\ ~pre.initialized) =>
        LET s == last.args.signers
            t == last.args.threshold
        IN  /\ Len(s) = 0 => (last.res = "EmptySigners" /\ ~initialized)
            /\ (Len(s) > 0 /\ (t = 0 \/ t > Len(s)))
                  => (last.res = "InvalidThreshold" /\ ~initialized)

\* An initialize with an empty list and threshold 0 was refused with
\* EmptySigners.
C13_Witness ==
    /\ last.op = "initialize"
    /\ ~pre.initialized
    /\ last.args.signers = <<>>
    /\ last.args.threshold = 0
    /\ last.res = "EmptySigners"

\* The proposal was Active and unexpired when the call was made.
OpenAtCall(id) ==
    /\ pre.proposals[id].status = Active
    /\ pre.ledger <= pre.proposals[id].expiration

\* C14: for a signer s and an Active, unexpired proposal id, the approve(s,
\* id) that directly follows a successful approve(s, id) is answered with
\* AlreadyApproved, and an approve by a signer who is already in the
\* approvals fails with AlreadyApproved and leaves the approvals (length and
\* content) and everything else stored as they were.
C14_SecondApproveRefused ==
    \A s \in Addresses, id \in ProposalIds :
        /\ (Called("approve", s, id) /\ last.res = Ok)
              => /\ Contains(proposals[id].approvals, s)
                 /\ ApproveResult(s, TRUE, id) = "AlreadyApproved"
        /\ (/\ Called("approve", s, id)
            /\ SignerOn(s, id)
            /\ OpenAtCall(id)
            /\ Contains(pre.proposals[id].approvals, s))
              => /\ last.res = "AlreadyApproved"
                 /\ proposals[id].approvals = pre.proposals[id].approvals
                 /\ Untouched

\* A second approve by a signer was refused with AlreadyApproved on a
\* proposal that holds two approvals, and it still holds those two.
C14_Witness ==
    /\ last.op = "approve"
    /\ last.res = "AlreadyApproved"
    /\ Len(pre.proposals[last.id].approvals) = 2
    /\ proposals[last.id].approvals = pre.proposals[last.id].approvals

\* The entries of s other than x, in order.
Without(s, x) == SelectSeq(s, LAMBDA y : y # x)

\* C15: for a signer s not yet in the approvals of an Active, unexpired
\* proposal, approve(s, id) adds s, and the revoke_approval(s, id) that
\* follows is accepted and gives back exactly the approvals from before the
\* approve; a successful revoke_approval removes s and nothing else, after
\* which approve(s, id) is accepted again, so the cycle repeats; and
\* revoke_approval by a signer who is not in the approvals fails with
\* NotApproved.
C15_ApproveRevokeRoundTrip ==
    \A s \in Addresses, id \in ProposalIds :
        /\ (/\ Called("approve", s, id)
            /\ SignerOn(s, id)
            /\ OpenAtCall(id)
            /\ ~Contains(pre.proposals[id].approvals, s))
              => /\ last.res = Ok
                 /\ proposals[id].approvals
                       = Append(pre.proposals[id].approvals, s)
                 /\ RevokeResult(s, TRUE, id) = Ok
                 /\ RemoveFirst(proposals[id].approvals, s)
                       = pre.proposals[id].approvals
        /\ (Called("revoke_approval", s, id) /\ last.res = Ok)
              => /\ Contains(pre.proposals[id].approvals, s)
                 /\ proposals[id].approvals
                       = Without(pre.proposals[id].approvals, s)
                 /\ Len(proposals[id].approvals)
                       = Len(pre.proposals[id].approvals) - 1
                 /\ proposals[id].status = Active
                 /\ ApproveResult(s, TRUE, id) = Ok
        /\ (/\ Called("revoke_approval", s, id)
            /\ SignerOn(s, id)
            /\ OpenAtCall(id))
              => IF Contains(pre.proposals[id].approvals, s)
                 THEN last.res = Ok
                 ELSE last.res = "NotApproved" /\ Untouched

\* A signer who approved after another one has revoked: the approvals are
\* again the other signer's alone.
C15_Witness ==
    /\ last.op = "revoke_approval"
    /\ last.res = Ok
    /\ Len(pre.proposals[last.id].approvals) = 2
    /\ pre.proposals[last.id].approvals[2] = last.caller
    /\ proposals[last.id].approvals = <<pre.proposals[last.id].approvals[1]>>

\* C16: approve, revoke_approval and execute on proposal id change no field
\* (approvals, status, action, expiration, proposer) of any other stored
\* proposal, add or remove no proposal, and leave the proposal counter as it
\* was.
C16_ProposalsIndependent ==
    last.op \in {"approve", "revoke_approval", "execute"} =>
        /\ propCount = pre.propCount
        /\ DOMAIN proposals = DOMAIN pre.proposals
        /\ \A other \in DOMAIN pre.proposals :
              other # last.id => proposals[other] = pre.proposals[other]

\* Proposal 1 was executed while proposal 2, Active and holding an approval,
\* stayed as it was.
C16_Witness ==
    /\ last.op = "execute"
    /\ last.id = 1
    /\ last.res = Ok
    /\ 2 \in DOMAIN pre.proposals
    /\ pre.proposals[2].status = Active
    /\ Len(pre.proposals[2].approvals) = 1
    /\ pre.proposals[2].action # pre.proposals[1].action
    /\ proposals[2] = pre.proposals[2]
    /\ proposals[1].status = Executed

\* C17: a successful create_proposal(proposer, action, expiration) returns
\* id = previous proposal counter + 1 (the first id is 1), stores under that
\* id a proposal with that proposer, action and expiration, empty approvals
\* and status Active, and sets the counter to the returned id; the id is
\* greater than every id returned before, no stored proposal is touched, and
\* no other call moves the counter.
C17_CreateAllocatesNextId ==
    /\ (last.op = "create_proposal" /\ last.res = Ok) =>
          LET id == last.id
          IN  /\ last.ret = <<id>>
              /\ id = pre.propCount + 1
              /\ pre.propCount = 0 => id = 1
              /\ propCount = id
              /\ \A j \in DOMAIN pre.proposals : j < id
              /\ DOMAIN proposals = DOMAIN pre.proposals \cup {id}
              /\ \A j \in DOMAIN pre.proposals :
                    proposals[j] = pre.proposals[j]
              /\ proposals[id] =
                    [id |-> id, proposer |-> last.caller,
                     action |-> last.args.action, approvals |-> <<>>,
                     status |-> Active,
                     expiration |-> last.args.expiration]
    /\ (last.op # "idle"
           /\ ~(last.op = "create_proposal" /\ last.res = Ok))
          => propCount = pre.propCount
    /\ DOMAIN proposals = 1 .. propCount

\* The second create_proposal returned 2 while proposal 1, already Executed,
\* stayed stored.
C17_Witness ==
    /\ last.op = "create_proposal"
    /\ last.res = Ok
    /\ last.ret = <<2>>
    /\ propCount = 2
    /\ pre.proposals[1].status = Executed
    /\ proposals[2].status = Active
    /\ proposals[2].approvals = <<>>

\* The entry points that take the caller's identity.
GatedOps ==
    {"create_proposal", "approve", "revoke_approval", "execute", "set_token"}

\* C18: on an initialized wallet, create_proposal, approve, revoke_approval,
\* execute and set_token called by an identity that is not in the signer set
\* stored at the moment of the call fail with NotASigner and change nothing,
\* and a caller who is in that set is never answered NotASigner; once an
\* UpdateSigners has been executed, the set that decides is the new one.
C18_OnlyCurrentSigners ==
    /\ \A s \in Addresses :
          (/\ last.op \in GatedOps
           /\ last.caller = s
           /\ last.res # AuthAbort
           /\ pre.initialized)
          => IF Contains(pre.signers, s)
             THEN last.res # "NotASigner"
             ELSE /\ last.res = "NotASigner"
                  /\ Untouched
                  /\ HistoryUntouched
    /\ \A id \in DOMAIN proposals :
          C8_Updated(id) =>
             \A r \in Addresses :
                Gate(r, TRUE)
                   = IF Contains(pre.proposals[id].action.new_signers, r)
                     THEN Ok ELSE "NotASigner"

\* The proposer of an executed UpdateSigners that left them out of the
\* signer set called approve and was refused with NotASigner.
C18_Witness ==
    /\ last.op = "approve"
    /\ last.res = "NotASigner"
    /\ \E id \in DOMAIN pre.proposals :
          /\ pre.proposals[id].status = Executed
          /\ IsUpdate(pre.proposals[id])
          /\ pre.proposals[id].proposer = last.caller
          /\ pre.proposals[id].action.new_signers = pre.signers
          /\ ~Contains(pre.signers, last.caller)

\* C19: before a successful initialize, create_proposal, approve,
\* revoke_approval, execute and set_token fail with NotInitialized for every
\* argument, authorized or not, and the wallet stays uninitialized with no
\* proposal stored.
C19_NothingBeforeInitialize ==
    /\ (last.op \in GatedOps /\ ~pre.initialized)
          => /\ last.res = "NotInitialized"
             /\ Untouched
             /\ HistoryUntouched
             /\ ~initialized
             /\ proposals = <<>>
    /\ ~initialized => /\ proposals = <<>>
                       /\ propCount = 0
                       /\ token = NoToken
                       /\ signers = <<>>

\* A create_proposal on a wallet that was never initialized was refused with
\* NotInitialized and stored nothing.
C19_Witness ==
    /\ last.op = "create_proposal"
    /\ ~pre.initialized
    /\ last.res = "NotInitialized"
    /\ last.args.action.kind = "UpdateSigners"
    /\ proposals = <<>>
    /\ propCount = 0

\* The four views.
ViewOps == {"get_proposal", "get_signers", "get_threshold",
            "get_proposal_count"}

\* C20: get_signers, get_threshold and get_proposal_count fail with
\* NotInitialized before initialization and afterwards return the stored
\* signers, threshold and proposal counter verbatim; get_proposal(id) returns
\* the stored proposal, or fails with ProposalNotFound when no proposal has
\* that id; none of the four views changes any durable state.
C20_ViewsReadOnly ==
    /\ last.op \in ViewOps => Untouched /\ HistoryUntouched
    /\ last.op \in ViewOps \ {"get_proposal"} =>
          IF pre.initialized
          THEN /\ last.res = Ok
               /\ last.op = "get_signers" => last.ret = <<signers>>
               /\ last.op = "get_threshold" => last.ret = <<threshold>>
               /\ last.op = "get_proposal_count" => last.ret = <<propCount>>
          ELSE last.res = "NotInitialized" /\ last.ret = NoRet
    /\ last.op = "get_proposal" =>
          IF last.id \in DOMAIN proposals
          THEN last.res = Ok /\ last.ret = <<proposals[last.id]>>
          ELSE last.res = "ProposalNotFound" /\ last.ret = NoRet

\* get_signers returned the list that an executed UpdateSigners stored.
C20_Witness ==
    /\ last.op = "get_signers"
    /\ last.res = Ok
    /\ last.ret = <<signers>>
    /\ \E id \in DOMAIN proposals :
          /\ proposals[id].status = Executed
          /\ IsUpdate(proposals[id])
          /\ proposals[id].action.new_signers = signers
          /\ ~Contains(signers, proposals[id].proposer)

\* C21: called on a wallet that has not been initialized, get_proposal(id)
\* fails with NotInitialized for every id.
C21_GetProposalRequiresInit ==
    (last.op = "get_proposal" /\ ~pre.initialized)
        => last.res = "NotInitialized"

\* The call was a successful execute of an UpdateSigners proposal.
ExecutedUpdate ==
    /\ last.op = "execute"
    /\ last.res = Ok
    /\ IsUpdate(pre.proposals[last.id])

\* C22: after initialize, the stored signers and threshold are changed only
\* by a successful execute of an UpdateSigners proposal: every other call
\* (initialize again, create_proposal, approve, revoke_approval, set_token,
\* execute of a Transfer proposal, every view, every failed call) leaves
\* them as they were.
C22_ConfigChangedOnlyByUpdate ==
    (last.op # "idle" /\ pre.initialized /\ ~ExecutedUpdate)
        => /\ signers = pre.signers
           /\ threshold = pre.threshold
           /\ initialized

\* A Transfer proposal was executed in a two-signer wallet and the signers
\* and the threshold are as before.
C22_Witness ==
    /\ last.op = "execute"
    /\ last.res = Ok
    /\ IsTransfer(pre.proposals[last.id])
    /\ Len(pre.signers) = 2
    /\ signers = pre.signers
    /\ threshold = pre.threshold
    /\ transfers # pre.transfers

\* The number of approvals a proposal held when the call was made, and the
\* thresholds that were stored when they were given.
ApprovalsAtCall(id) == Len(pre.proposals[id].approvals)
BarsAtCall(id) == Range(pre.bars[id])

\* C23: the quorum bar is the threshold stored when execute is called, not
\* the one in force when the approvals were given: for a current signer and
\* an Active, unexpired proposal, execute fails with ThresholdNotMet exactly
\* when the approvals are fewer than the threshold stored at the call,
\* whatever thresholds they were given under, and otherwise goes on to the
\* dispatch with no further approval.
C23_BarReadAtExecute ==
    \A s \in Addresses, id \in ProposalIds \cup PairIds :
        (Called("execute", s, id) /\ SignerOn(s, id) /\ OpenAtCall(id))
        => /\ last.res = "ThresholdNotMet"
                 <=> ApprovalsAtCall(id) < pre.threshold
           /\ (ApprovalsAtCall(id) >= pre.threshold
                  /\ IsUpdate(pre.proposals[id])
                  /\ LegalUpdate(pre.proposals[id]))
                 => last.res = Ok

\* After an UpdateSigners raised the threshold, execute of a pending proposal
\* failed with ThresholdNotMet although its approvals met the threshold they
\* were given under.
C23_Witness ==
    /\ last.op = "execute"
    /\ last.res = "ThresholdNotMet"
    /\ ApprovalsAtCall(last.id) >= 1
    /\ \A b \in BarsAtCall(last.id) :
          ApprovalsAtCall(last.id) >= b /\ b < pre.threshold
    /\ \E u \in DOMAIN pre.proposals :
          /\ u # last.id
          /\ pre.proposals[u].status = Executed
          /\ IsUpdate(pre.proposals[u])
          /\ pre.proposals[u].action.new_threshold = pre.threshold

\* After an UpdateSigners lowered the threshold, a pending proposal whose
\* approvals were too few for the threshold they were given under was
\* executed with no further approval.
C23_WitnessLowered ==
    /\ last.op = "execute"
    /\ last.res = Ok
    /\ ApprovalsAtCall(last.id) >= 1
    /\ \A b \in BarsAtCall(last.id) :
          ApprovalsAtCall(last.id) < b /\ b > pre.threshold
    /\ \E u \in DOMAIN pre.proposals :
          /\ u # last.id
          /\ pre.proposals[u].status = Executed
          /\ IsUpdate(pre.proposals[u])
          /\ pre.proposals[u].action.new_threshold = pre.threshold

\* The approvals of proposal id at the call that were given by identities
\* that were signers at the call.
SignerApprovalsAtCall(id) ==
    SelectSeq(pre.proposals[id].approvals,
              LAMBDA a : Contains(pre.signers, a))

\* C24: an entry enters a proposal's approvals only through a successful
\* approve by an identity that is in the signer set stored at that moment;
\* membership is not re-validated later: an executed UpdateSigners leaves
\* the approvals of every other proposal as they were, also those of a
\* signer it removes, and execute counts every entry of the approvals toward
\* the quorum, whether or not its author is still a signer.
C24_ApprovalsNotRevalidated ==
    /\ \A s \in Addresses, id \in ProposalIds \cup PairIds :
          /\ (Called("approve", s, id) /\ last.res = Ok)
                => /\ Contains(pre.signers, s)
                   /\ proposals[id].approvals
                         = Append(pre.proposals[id].approvals, s)
          /\ (Called("execute", s, id) /\ SignerOn(s, id) /\ OpenAtCall(id))
                => (last.res = "ThresholdNotMet"
                       <=> ApprovalsAtCall(id) < pre.threshold)
    /\ last.op # "idle" =>
          \A id \in DOMAIN proposals :
             IF id \in DOMAIN pre.proposals
             THEN Range(proposals[id].approvals)
                     \subseteq Range(pre.proposals[id].approvals)
                                 \cup IF last.op = "approve" /\ last.id = id
                                         /\ last.res = Ok
                                      THEN {last.caller} ELSE {}
             ELSE proposals[id].approvals = <<>>
    /\ (last.op # "idle" /\ ExecutedUpdate) =>
          \A id \in DOMAIN pre.proposals :
             id # last.id => proposals[id] = pre.proposals[id]

\* A proposal was executed on the approval of an identity that an executed
\* UpdateSigners had removed from the signer set; the approvals of those who
\* were still signers were fewer than the threshold.
C24_Witness ==
    /\ last.op = "execute"
    /\ last.res = Ok
    /\ ApprovalsAtCall(last.id) >= pre.threshold
    /\ Len(SignerApprovalsAtCall(last.id)) < pre.threshold
    /\ \E u \in DOMAIN pre.proposals :
          /\ u # last.id
          /\ pre.proposals[u].status = Executed
          /\ IsUpdate(pre.proposals[u])
          /\ pre.proposals[u].action.new_signers = pre.signers

\* The error codes the operation table lists for each entry point.
ListedCodes(op) ==
    CASE op = "initialize" -> {1, 3, 11, 12}
      [] op \in {"create_proposal", "set_token"} -> {2, 4}
      [] op = "approve" -> {2, 4, 5, 6, 9, 10}
      [] op = "revoke_approval" -> {2, 4, 5, 7, 9, 10}
      [] op = "execute" -> {2, 3, 4, 5, 8, 9, 10, 12}
      [] op \in ViewOps -> {2, 5}

\* The call returned a MultisigError.
ReturnedError == last.res \in DOMAIN ErrorCode

\* C25: the error an entry point returns is always one of the codes listed
\* for it, and a failed call returns exactly one: initialize {1,3,11,12};
\* create_proposal and set_token {2,4}; approve {2,4,5,6,9,10};
\* revoke_approval {2,4,5,7,9,10}; execute {2,3,4,5,8,9,10,12}; the views
\* {2,5}.  A call that does not return (a denied authorization in the five
\* signer-gated entry points, a failed token transfer in execute of a
\* Transfer, an overflow of the counter in create_proposal) carries no
\* MultisigError.
C25_ListedErrorsOnly ==
    last.op # "idle" =>
        /\ last.res = Ok \/ ReturnedError
              \/ (last.res = AuthAbort /\ last.op \in GatedOps)
              \/ (/\ last.res = TransferAbort
                  /\ last.op = "execute"
                  /\ IsTransfer(pre.proposals[last.id]))
              \/ (/\ last.res = OverflowAbort
                  /\ last.op = "create_proposal"
                  /\ pre.propCount = U32Max)
        /\ ReturnedError =>
              /\ ErrorCode[last.res] \in ListedCodes(last.op)
              /\ last.ret = NoRet

\* An execute returned InvalidThreshold, code 3.
C25_Witness ==
    /\ last.op = "execute"
    /\ ReturnedError
    /\ ErrorCode[last.res] = 3
    /\ IsUpdate(pre.proposals[last.id])

\* C26: execute of a quorum-met Transfer proposal either fails as a whole
\* because the token transfer fails, and then the proposal stays Active and
\* nothing stored changes, or succeeds, and then exactly one transfer of the
\* proposal's amount to the proposal's recipient has been made, the proposal
\* is Executed in the same step and nothing else stored changes; no other
\* call makes a transfer.
C26_TransferAllOrNothing ==
    /\ \A s \in Addresses, id \in ProposalIds \cup PairIds :
          (/\ Called("execute", s, id)
           /\ SignerOn(s, id)
           /\ OpenAtCall(id)
           /\ ApprovalsAtCall(id) >= pre.threshold
           /\ IsTransfer(pre.proposals[id]))
          => \/ /\ last.res = TransferAbort
                /\ Untouched
                /\ HistoryUntouched
                /\ proposals[id].status = Active
             \/ /\ last.res = Ok
                /\ pre.token # NoToken
                /\ transfers = Append(pre.transfers,
                       [token |-> pre.token, from |-> Wallet,
                        to |-> pre.proposals[id].action.to,
                        amount |-> pre.proposals[id].action.amount])
                /\ proposals[id]
                      = [pre.proposals[id] EXCEPT !.status = Executed]
                /\ dispatched[id] = pre.dispatched[id] + 1
                /\ <<signers, threshold, token, propCount>>
                      = <<pre.signers, pre.threshold, pre.token,
                          pre.propCount>>
    /\ (last.op # "idle" /\ transfers # pre.transfers)
          => /\ last.op = "execute"
             /\ last.res = Ok
             /\ IsTransfer(pre.proposals[last.id])

\* The token contract refused the transfer of a quorum-met Transfer proposal
\* in a wallet with a token stored: the proposal is still Active and no
\* transfer is recorded.
C26_Witness ==
    /\ last.op = "execute"
    /\ last.res = TransferAbort
    /\ pre.token # NoToken
    /\ ApprovalsAtCall(last.id) >= pre.threshold
    /\ proposals[last.id].status = Active
    /\ transfers = <<>>

\* C27: create_proposal, approve, revoke_approval, execute and set_token ask
\* for the authorization of the identity named in the call before any write:
\* a call that identity did not authorize changes nothing stored (it aborts,
\* or on an uninitialized wallet returns NotInitialized), so every approval,
\* revocation, proposal, execution and token change was authorized by the
\* identity it is recorded for.
C27_AuthorizedBeforeWrite ==
    last.op \in GatedOps =>
        /\ ~last.args.auth
              => /\ last.res = IF pre.initialized THEN AuthAbort
                               ELSE "NotInitialized"
                 /\ Untouched
                 /\ HistoryUntouched
        /\ last.res = AuthAbort => ~last.args.auth
        /\ ~(Untouched /\ HistoryUntouched)
              => (last.args.auth /\ last.res = Ok)

\* An approve that the named signer did not authorize aborted, although the
\* signer could have approved, and the approvals are as before.
C27_Witness ==
    /\ last.op = "approve"
    /\ ~last.args.auth
    /\ last.res = AuthAbort
    /\ Contains(pre.signers, last.caller)
    /\ last.id \in DOMAIN pre.proposals
    /\ pre.proposals[last.id].status = Active
    /\ ~Contains(pre.proposals[last.id].approvals, last.caller)
    /\ proposals = pre.proposals

\* C28: set_token(signer, token) by an authorized current signer on an
\* initialized wallet succeeds with no quorum and no proposal, stores token
\* in place of whatever was stored, and changes nothing else: signers,
\* threshold, proposal counter and all proposals are as before; a Transfer
\* executed later goes to the token stored at that moment.
C28_SetTokenOnlySetsToken ==
    /\ \A s \in Addresses :
          (/\ last.op = "set_token"
           /\ last.caller = s
           /\ last.args.auth
           /\ pre.initialized
           /\ Contains(pre.signers, s))
          => /\ last.res = Ok
             /\ token = last.args.token
             /\ <<initialized, signers, threshold, propCount, proposals>>
                   = <<pre.initialized, pre.signers, pre.threshold,
                       pre.propCount, pre.proposals>>
             /\ HistoryUntouched
    /\ (last.op # "idle" /\ token # pre.token)
          => (last.op = "set_token" /\ last.res = Ok)
    /\ (last.op = "execute" /\ last.res = Ok
           /\ IsTransfer(pre.proposals[last.id]))
          => /\ pre.token # NoToken
             /\ transfers[Len(transfers)].token = pre.token

\* One signer of a two-signer wallet with threshold 2 and no proposal
\* replaced the stored token by another.
C28_Witness ==
    /\ last.op = "set_token"
    /\ last.res = Ok
    /\ pre.threshold = 2
    /\ pre.proposals = <<>>
    /\ pre.token # NoToken
    /\ token # pre.token
    /\ token = last.args.token

\* The entry points that work on a stored proposal.
ProposalOps == {"approve", "revoke_approval", "execute"}

\* The answer the operation's own check gives once the shared preconditions
\* hold; a Transfer that reaches the dispatch is left to the token contract.
OwnCheckAtCall ==
    LET p == pre.proposals[last.id]
        approved == Contains(p.approvals, last.caller)
    IN  CASE last.op = "approve" ->
                {IF approved THEN "AlreadyApproved" ELSE Ok}
          [] last.op = "revoke_approval" ->
                {IF approved THEN Ok ELSE "NotApproved"}
          [] last.op = "execute" ->
                IF Len(p.approvals) < pre.threshold THEN {"ThresholdNotMet"}
                ELSE IF IsTransfer(p) THEN {Ok, TransferAbort}
                ELSE IF Len(p.action.new_signers) = 0 THEN {"EmptySigners"}
                ELSE IF p.action.new_threshold = 0
                        \/ p.action.new_threshold > Len(p.action.new_signers)
                     THEN {"InvalidThreshold"}
                ELSE {Ok}

\* The preconditions in the order stated, judged on the state the call ran
\* in: the first violated one gives the answer.
FirstViolatedAtCall ==
    IF ~pre.initialized THEN {"NotInitialized"}
    ELSE IF ~last.args.auth THEN {AuthAbort}
    ELSE IF ~Contains(pre.signers, last.caller) THEN {"NotASigner"}
    ELSE IF last.id \notin DOMAIN pre.proposals THEN {"ProposalNotFound"}
    ELSE IF pre.proposals[last.id].status = Executed THEN {"AlreadyExecuted"}
    ELSE IF pre.ledger > pre.proposals[last.id].expiration
         THEN {"ProposalExpired"}
    ELSE OwnCheckAtCall

\* C29: approve, revoke_approval and execute check their preconditions in a
\* fixed order and the first violated one determines the answer:
\* NotInitialized, then the authorization, then NotASigner, then
\* ProposalNotFound, then AlreadyExecuted, then ProposalExpired, and last the
\* operation's own check (AlreadyApproved / NotApproved / ThresholdNotMet,
\* and for execute of UpdateSigners EmptySigners before InvalidThreshold).
C29_FirstViolationDecides ==
    last.op \in ProposalOps => last.res \in FirstViolatedAtCall

\* A revoke_approval by a signer who had not approved an expired proposal
\* was answered ProposalExpired, not NotApproved.
C29_Witness ==
    /\ last.op = "revoke_approval"
    /\ last.res = "ProposalExpired"
    /\ ~Contains(pre.proposals[last.id].approvals, last.caller)
    /\ pre.proposals[last.id].status = Active

\* C30: the expiration is inclusive: for an authorized current signer and an
\* Active proposal, approve, revoke_approval and execute fail with
\* ProposalExpired exactly when the ledger sequence is strictly greater than
\* the expiration; at a sequence equal to the expiration they are still
\* taken: approve adds an approval, revoke_approval removes one, execute
\* with a quorum and legal parameters executes.
C30_ExpirationInclusive ==
    \A s \in Addresses, id \in ProposalIds \cup PairIds :
        (/\ last.op \in ProposalOps
         /\ Called(last.op, s, id)
         /\ SignerOn(s, id)
         /\ pre.proposals[id].status = Active)
        => LET p == pre.proposals[id]
               approved == Contains(p.approvals, s)
           IN  /\ last.res = "ProposalExpired" <=> pre.ledger > p.expiration
               /\ pre.ledger = p.expiration =>
                     /\ (last.op = "approve" /\ ~approved) => last.res = Ok
                     /\ (last.op = "revoke_approval" /\ approved)
                           => last.res = Ok
                     /\ (/\ last.op = "execute"
                         /\ Len(p.approvals) >= pre.threshold
                         /\ IsUpdate(p)
                         /\ LegalUpdate(p)) => last.res = Ok

\* A proposal was executed at the ledger sequence that is its expiration,
\* after the ledger had advanced.
C30_Witness ==
    /\ last.op = "execute"
    /\ last.res = Ok
    /\ pre.ledger = pre.proposals[last.id].expiration
    /\ pre.ledger >= 1

\* C31: revoke_approval by a current signer on an Active proposal whose
\* expiration has passed fails with ProposalExpired, also when the signer is
\* in the approvals; no call changes the approvals or the status of an
\* Active proposal that has expired, and no call moves the ledger sequence,
\* which only advances, so an expired proposal stays as it is, Active and
\* never executed.
C31_ExpiredIsFrozen ==
    /\ \A s \in Addresses, id \in ProposalIds \cup PairIds :
          (/\ Called("revoke_approval", s, id)
           /\ SignerOn(s, id)
           /\ pre.proposals[id].status = Active
           /\ pre.ledger > pre.proposals[id].expiration)
          => last.res = "ProposalExpired"
    /\ last.op # "idle" =>
          /\ ledger = pre.ledger
          /\ \A id \in DOMAIN pre.proposals :
                (/\ pre.proposals[id].status = Active
                 /\ pre.ledger > pre.proposals[id].expiration)
                => /\ proposals[id] = pre.proposals[id]
                   /\ dispatched[id] = 0

\* A signer who is in the approvals of an expired Active proposal called
\* revoke_approval and was answered ProposalExpired.
C31_Witness ==
    /\ last.op = "revoke_approval"
    /\ last.res = "ProposalExpired"
    /\ Contains(pre.proposals[last.id].approvals, last.caller)
    /\ proposals[last.id].status = Active
    /\ proposals[last.id].approvals = pre.proposals[last.id].approvals

\* C32: in every reachable state no identity appears more than once in any
\* proposal's approvals, so the length execute compares with the threshold
\* is the number of distinct approvers; a successful revoke_approval(s, id)
\* leaves no entry for s.
C32_ApprovalsDistinct ==
    /\ \A id \in DOMAIN proposals :
          /\ NoDuplicates(proposals[id].approvals)
          /\ Len(proposals[id].approvals)
                = Cardinality(Range(proposals[id].approvals))
    /\ (last.op = "revoke_approval" /\ last.res = Ok)
          => ~Contains(proposals[last.id].approvals, last.caller)

\* A second signer approved: the approvals hold two entries, two distinct
\* signers, none of them twice.
C32_Witness ==
    /\ last.op = "approve"
    /\ last.res = Ok
    /\ Len(pre.proposals[last.id].approvals) = 1
    /\ Len(proposals[last.id].approvals) = 2
    /\ Cardinality(Range(proposals[last.id].approvals)) = 2

\* C33: a stored proposal is never deleted, and its id, proposer, action
\* and expiration are never changed: over every call, the approvals of a
\* stored proposal change only by a successful approve or revoke_approval
\* of that proposal, and its status only by a successful execute of it.
C33_ProposalFrame ==
    last.op # "idle" =>
      \A id \in DOMAIN pre.proposals :
        /\ id \in DOMAIN proposals
        /\ proposals[id].id = pre.proposals[id].id
        /\ proposals[id].proposer = pre.proposals[id].proposer
        /\ proposals[id].action = pre.proposals[id].action
        /\ proposals[id].expiration = pre.proposals[id].expiration
        /\ proposals[id].approvals # pre.proposals[id].approvals
             => /\ last.op \in {"approve", "revoke_approval"}
                /\ last.id = id
                /\ last.res = Ok
        /\ proposals[id].status # pre.proposals[id].status
             => /\ last.op = "execute"
                /\ last.id = id
                /\ last.res = Ok

\* execute of a proposal with two approvals succeeded beside another stored
\* proposal: the status is all that changed, and only in the proposal
\* executed.
C33_Witness ==
    /\ last.op = "execute"
    /\ last.res = Ok
    /\ DOMAIN pre.proposals = {1, 2}
    /\ Len(pre.proposals[last.id].approvals) = 2
    /\ proposals[last.id]
         = [pre.proposals[last.id] EXCEPT !.status = Executed]
    /\ \A id \in DOMAIN pre.proposals \ {last.id} :
          proposals[id] = pre.proposals[id]

\* C34: in every reachable state the counter equals the number of
\* successful create_proposal calls, and a proposal is stored under id
\* exactly when 1 <= id <= counter, its id field being id; get_proposal(0)
\* and get_proposal(id) with id above the counter answer ProposalNotFound,
\* and get_proposal of a stored id returns the proposal.
C34_CounterCountsProposals ==
    /\ propCount = Len(returned)
    /\ DOMAIN proposals = 1 .. propCount
    /\ \A id \in DOMAIN proposals : proposals[id].id = id
    /\ ~initialized => propCount = 0
    /\ last.op = "get_proposal" =>
          /\ (last.id = 0 \/ last.id > pre.propCount)
                => last.res = "ProposalNotFound"
          /\ (1 <= last.id /\ last.id <= pre.propCount)
                => /\ last.res = Ok
                   /\ last.ret = <<pre.proposals[last.id]>>

\* With a proposal stored, get_proposal of the id above the counter was
\* answered ProposalNotFound.
C34_Witness ==
    /\ last.op = "get_proposal"
    /\ last.res = "ProposalNotFound"
    /\ initialized
    /\ propCount >= 1
    /\ Len(returned) = propCount
    /\ last.id > propCount

\* C35: create_proposal by a current signer succeeds whatever the action and
\* the expiration are, and stores both as given: also an UpdateSigners with
\* an empty list, a threshold of 0 or a threshold above the length of the
\* list, and an expiration the ledger has already passed.  Illegal
\* UpdateSigners parameters are rejected by execute, once the proposal has
\* its approvals, with EmptySigners or InvalidThreshold.
C35_CreateValidatesNothing ==
    /\ (/\ last.op = "create_proposal"
        /\ last.args.auth
        /\ pre.initialized
        /\ Contains(pre.signers, last.caller))
       => /\ last.res = Ok
          /\ last.id \in DOMAIN proposals
          /\ proposals[last.id].action = last.args.action
          /\ proposals[last.id].expiration = last.args.expiration
          /\ proposals[last.id].status = Active
    /\ \A s \in Addresses, id \in ProposalIds \cup PairIds :
          (/\ Called("execute", s, id)
           /\ SignerOn(s, id)
           /\ OpenAtCall(id)
           /\ Len(pre.proposals[id].approvals) >= pre.threshold
           /\ IsUpdate(pre.proposals[id])
           /\ ~LegalUpdate(pre.proposals[id]))
          => /\ last.res \in {"EmptySigners", "InvalidThreshold"}
             /\ Untouched

\* A signer's create_proposal succeeded with an UpdateSigners action whose
\* parameters are illegal and with an expiration below the current ledger
\* sequence.
C35_Witness ==
    /\ last.op = "create_proposal"
    /\ last.res = Ok
    /\ IsUpdate(proposals[last.id])
    /\ ~LegalUpdate(proposals[last.id])
    /\ last.args.expiration < pre.ledger
    /\ proposals[last.id].expiration < ledger

\* C36: revoke_approval by an identity that is not a current signer fails
\* with NotASigner and writes nothing, also when that identity is in the
\* approvals of the Active proposal (it approved and an executed
\* UpdateSigners then removed it); no call removes from a proposal's
\* approvals the entry of an identity that is not a signer, so the entry
\* stays as long as its author is outside the signer set.  A current signer
\* who is in the approvals of an Active, unexpired proposal can withdraw.
C36_RemovedSignerCannotRevoke ==
    /\ \A s \in Addresses, id \in ProposalIds \cup PairIds :
          /\ (/\ Called("revoke_approval", s, id)
              /\ pre.initialized
              /\ ~Contains(pre.signers, s))
             => /\ last.res = "NotASigner"
                /\ Untouched
          /\ (/\ Called("revoke_approval", s, id)
              /\ SignerOn(s, id)
              /\ OpenAtCall(id)
              /\ Contains(pre.proposals[id].approvals, s))
             => /\ last.res = Ok
                /\ ~Contains(proposals[id].approvals, s)
    /\ last.op # "idle" =>
          \A id \in DOMAIN pre.proposals :
            \A a \in Range(pre.proposals[id].approvals) :
              ~Contains(pre.signers, a)
                => Contains(proposals[id].approvals, a)

\* An executed UpdateSigners left B out of the signers; B, who had approved
\* the other proposal, still Active and unexpired, called revoke_approval
\* on it and was answered NotASigner, B's approval staying where it was.
C36_Witness ==
    /\ last.op = "revoke_approval"
    /\ last.res = "NotASigner"
    /\ last.id \in DOMAIN proposals
    /\ proposals[last.id].status = Active
    /\ ledger <= proposals[last.id].expiration
    /\ Contains(proposals[last.id].approvals, last.caller)
    /\ ~Contains(signers, last.caller)
    /\ \E other \in DOMAIN proposals :
          /\ proposals[other].status = Executed
          /\ IsUpdate(proposals[other])
          /\ ~Contains(proposals[other].action.new_signers, last.caller)

\* C37 as stated: every successful create_proposal returns an id that is not
\* 0, that no stored proposal has, and that no earlier call has returned,
\* also in the calls made with the counter at u32::MAX.
C37_NeverReusesId ==
    (last.op = "create_proposal" /\ last.res = Ok)
    => /\ last.id # 0
       /\ last.id \notin DOMAIN pre.proposals
       /\ ~Contains(pre.returned, last.id)

\* What the code does at the maximum, in a build without overflow checks:
\* the create_proposal that finds the counter at u32::MAX returns 0, and
\* the one after it returns 1 and replaces the proposal stored under 1.
C37_WrapsOntoStored ==
    ~(/\ last.op = "create_proposal"
      /\ last.res = Ok
      /\ last.id = 1
      /\ 1 \in DOMAIN pre.proposals
      /\ proposals[1] # pre.proposals[1]
      /\ returned = <<1, U32Max, 0, 1>>)

\* The arguments of the initialize call pass its checks.
ValidInitArgs ==
    /\ Len(last.args.signers) >= 1
    /\ NoDuplicates(last.args.signers)
    /\ last.args.threshold >= 1
    /\ last.args.threshold <= Len(last.args.signers)

\* C38: initialize on an uninitialized wallet succeeds for valid arguments
\* and stores them, whichever identity makes the call, listed among the
\* signers or not, and whether or not the call is authorized; its outcome
\* never is a denied authorization or NotASigner.  Once it has succeeded,
\* every later initialize fails with AlreadyInitialized and leaves the
\* signers and the threshold of the first valid call.
C38_InitializeUngated ==
    last.op = "initialize" =>
        /\ last.res \notin {AuthAbort, "NotASigner"}
        /\ (~pre.initialized /\ ValidInitArgs)
             => /\ last.res = Ok
                /\ initialized
                /\ signers = last.args.signers
                /\ threshold = last.args.threshold
        /\ pre.initialized
             => /\ last.res = "AlreadyInitialized"
                /\ Untouched

\* initialize succeeded on a call that was not authorized, made by an
\* identity that is not among the signers it lists.
C38_Witness ==
    /\ last.op = "initialize"
    /\ last.res = Ok
    /\ ~last.args.auth
    /\ ~Contains(last.args.signers, last.caller)
    /\ signers = last.args.signers
    /\ ~pre.initialized

====
